---- MODULE Spec2Model ----
(***************************************************************************)
(* Model of the chat client's Session Store (services/chatStorage.ts,      *)
(* ChatStorageService) over the browser's persistent key-value area, and   *)
(* of the composer of components/ChatInterface.tsx that drives it.         *)
(***************************************************************************)
EXTENDS Integers, Sequences, FiniteSets, TLC

\* ---------------------------------------------------------------- bounds
MaxIds == 2          \* session ids that Date.now()/Math.random() may hand out
MaxTotalMsgs == 2    \* messages kept in the persistent area, all sessions
MaxLimit == 2        \* largest limit passed to getConversationHistory
MaxInflight == 2     \* chat requests awaiting their response at one time

\* ---------------------------------------------------------------- values
NoId == 0                       \* localStorage.getItem(...) === null
GhostId == MaxIds + 1           \* an id no session ever had ("nonexistent")
Undefined == "<undefined>"      \* an omitted optional argument
DefaultTitle == "Chat 1/1/2026" \* `Chat ${new Date().toLocaleDateString()}`
ErrorText == "Sorry, I encountered an error. Please check if the backend is running."
NoReplyText == "No response received"

TitleArgs == {Undefined, "Demo"}

\* ---------------------------------------------------------------- state
VARIABLES
    ls,          \* the persistent key-value area (localStorage), two keys
    nextId,      \* the next fresh session id
    lastOp,      \* the store operation that ran last, its argument and result
    messages,    \* ChatInterface state: the displayed message list
    input,       \* ChatInterface state: the composer's text
    isLoading,   \* ChatInterface state: the loading flag
    isConnected, \* ChatInterface state: result of the last health check
    mode,        \* ChatInterface state: the nominal mode
    isExpressiveMode, \* ChatInterface state: the expressive toggle
    currentSession,   \* ChatInterface state: id of the session object held
    mounted,     \* whether the mount effect has run
    inflight,    \* chat requests awaiting their response
    asked,       \* the sessions a request with generate_title was sent in
    tabs,        \* two tabs on one persistent area: each tab's position in its
                 \* store operation and its locals; the last writer of the listing
    logger       \* FrontendLogger: its two buffers, the flushes in progress
                 \* and the batches the backend has received

uiVars == <<messages, input, isLoading, isConnected, mode, isExpressiveMode,
            currentSession, mounted, inflight, asked, tabs, logger>>
vars == <<ls, nextId, lastOp, messages, input, isLoading, isConnected, mode,
          isExpressiveMode, currentSession, mounted, inflight, asked, tabs, logger>>

\* ------------------------------------------------------- sequence helpers
RECURSIVE FindIndexFrom(_, _, _)
FindIndexFrom(sessions, id, i) ==
    IF i > Len(sessions) THEN 0
    ELSE IF sessions[i].id = id THEN i
    ELSE FindIndexFrom(sessions, id, i + 1)

\* Array.prototype.findIndex(s => s.id === id); 0 stands for -1
FindIndex(sessions, id) == FindIndexFrom(sessions, id, 1)

\* Array.prototype.filter(s => s.id !== id)
\* the filter with its test inverted: filter(s => s.id === id)
FilterOut_Inverted(sessions, id) == SelectSeq(sessions, LAMBDA s : s.id = id)

FilterOut(sessions, id) == SelectSeq(sessions, LAMBDA s : s.id # id)

\* Array.prototype.slice(start): a negative start counts from the end,
\* a start that is not negative (0 and -0 included) counts from the front
JsSlice(seq, start) ==
    LET len == Len(seq)
        k == IF start < 0 THEN (IF len + start > 0 THEN len + start ELSE 0)
             ELSE (IF start < len THEN start ELSE len)
    IN  SubSeq(seq, k + 1, len)

\* ------------------------------------------------- the Session Store
\* A store state st is [has, list, cur, next]: whether the sessions key is
\* present, the listing it holds, the current-session key (NoId when the key
\* is missing) and the next fresh id.  Operations return [st, ret].

getSessions(st) == IF st.has THEN st.list ELSE <<>>

saveSessions(st, sessions) == [st EXCEPT !.has = TRUE, !.list = sessions]

getCurrentSessionId(st) == st.cur

setCurrentSessionId(st, sessionId) == [st EXCEPT !.cur = sessionId]

\* createNewSession without its setCurrentSessionId call
createNewSession_NoRepoint(st, title) ==
    LET newSession == [id |-> st.next,
                       title |-> IF title = Undefined THEN DefaultTitle ELSE title,
                       messages |-> <<>>]
        st1 == saveSessions(st, <<newSession>> \o getSessions(st))
    IN  [st |-> [st1 EXCEPT !.next = @ + 1], ret |-> newSession]

\* createNewSession with push in place of unshift
createNewSession_Push(st, title) ==
    LET newSession == [id |-> st.next,
                       title |-> IF title = Undefined THEN DefaultTitle ELSE title,
                       messages |-> <<>>]
        sessions == getSessions(st) \o <<newSession>>
        st1 == saveSessions(st, sessions)
        st2 == setCurrentSessionId(st1, newSession.id)
    IN  [st |-> [st2 EXCEPT !.next = @ + 1], ret |-> newSession]

createNewSession(st, title) ==
    LET newSession == [id |-> st.next,
                       title |-> IF title = Undefined THEN DefaultTitle ELSE title,
                       messages |-> <<>>]
        sessions == <<newSession>> \o getSessions(st)
        st1 == saveSessions(st, sessions)
        st2 == setCurrentSessionId(st1, newSession.id)
    IN  [st |-> [st2 EXCEPT !.next = @ + 1], ret |-> newSession]

\* sessions.find(...) || null, as [found, session]
getSession(st, sessionId) ==
    LET sessions == getSessions(st)
        i == FindIndex(sessions, sessionId)
    IN  IF i # 0 THEN [found |-> TRUE, session |-> sessions[i]]
        ELSE [found |-> FALSE]

getCurrentSession(st) ==
    LET currentId == getCurrentSessionId(st)
    IN  IF currentId # NoId /\ getSession(st, currentId).found
        THEN [st |-> st, ret |-> getSession(st, currentId).session]
        ELSE createNewSession(st, Undefined)

\* addMessage with unshift in place of push on the session's messages
addMessage_Prepend(st, message) ==
    LET sessions == getSessions(st)
        cs == getCurrentSession(st)
        sessionIndex == FindIndex(sessions, cs.ret.id)
        updated ==
            IF sessionIndex # 0
            THEN [sessions EXCEPT ![sessionIndex].messages = <<message>> \o @]
            ELSE <<[cs.ret EXCEPT !.messages = <<message>> \o @]>> \o sessions
    IN  [st |-> saveSessions(cs.st, updated), ret |-> message]

\* addMessage without its else branch: a session that is not found in the
\* listing that was read is not put back
addMessage_NoReinsert(st, message) ==
    LET sessions == getSessions(st)
        cs == getCurrentSession(st)
        sessionIndex == FindIndex(sessions, cs.ret.id)
        updated ==
            IF sessionIndex # 0
            THEN [sessions EXCEPT ![sessionIndex].messages = Append(@, message)]
            ELSE sessions
    IN  [st |-> saveSessions(cs.st, updated), ret |-> message]

addMessage(st, message) ==
    LET sessions == getSessions(st)
        cs == getCurrentSession(st)
        currentSession_ == cs.ret
        newMessage == message
        sessionIndex == FindIndex(sessions, currentSession_.id)
        updated ==
            IF sessionIndex # 0
            THEN [sessions EXCEPT ![sessionIndex].messages = Append(@, newMessage)]
            ELSE <<[currentSession_ EXCEPT !.messages = Append(@, newMessage)]>>
                 \o sessions
    IN  [st |-> saveSessions(cs.st, updated), ret |-> newMessage]

updateSessionTitle(st, sessionId, title) ==
    LET sessions == getSessions(st)
        sessionIndex == FindIndex(sessions, sessionId)
    IN  IF sessionIndex # 0
        THEN saveSessions(st, [sessions EXCEPT ![sessionIndex].title = title])
        ELSE st

\* getConversationHistory without the slice
getConversationHistory_Unsliced(st, limit) ==
    LET cs == getCurrentSession(st)
    IN  [st |-> cs.st,
         ret |-> [i \in 1..Len(cs.ret.messages) |->
                    [role |-> cs.ret.messages[i].role,
                     content |-> cs.ret.messages[i].content]]]

getConversationHistory(st, limit) ==
    LET cs == getCurrentSession(st)
        recentMessages == JsSlice(cs.ret.messages, 0 - limit)
    IN  [st |-> cs.st,
         ret |-> [i \in 1..Len(recentMessages) |->
                    [role |-> recentMessages[i].role,
                     content |-> recentMessages[i].content]]]

\* deleteSession without the re-creation of a current session
deleteSession_NoRecreate(st, sessionId) ==
    saveSessions(st, FilterOut(getSessions(st), sessionId))

deleteSession(st, sessionId) ==
    LET sessions == getSessions(st)
        filteredSessions == FilterOut(sessions, sessionId)
        st1 == saveSessions(st, filteredSessions)
    IN  IF getCurrentSessionId(st1) = sessionId
        THEN createNewSession(st1, Undefined).st
        ELSE st1

\* clearAllSessions without its createNewSession call
clearAllSessions_NoCreate(st) ==
    [st EXCEPT !.has = FALSE, !.list = <<>>, !.cur = NoId]

\* clearAllSessions without the removal of the sessions key
clearAllSessions_KeepListing(st) ==
    createNewSession([st EXCEPT !.cur = NoId], Undefined).st

clearAllSessions(st) ==
    createNewSession([st EXCEPT !.has = FALSE, !.list = <<>>, !.cur = NoId],
                     Undefined).st

\* switchToSession without the lookup of the session
switchToSession_Unchecked(st, sessionId) ==
    [st |-> setCurrentSessionId(st, sessionId), ret |-> TRUE]

switchToSession(st, sessionId) ==
    IF getSession(st, sessionId).found
    THEN [st |-> setCurrentSessionId(st, sessionId), ret |-> TRUE]
    ELSE [st |-> st, ret |-> FALSE]

\* title.startsWith('Chat ') || title === 'New Chat'
ChatPrefixed == {DefaultTitle, "Chat notes"}
hasDefaultTitle(title) == title \in ChatPrefixed \/ title = "New Chat"

needsTitleGeneration(st) ==
    LET cs == getCurrentSession(st)
        hasMessages == Len(cs.ret.messages) > 0
    IN  [st |-> cs.st,
         ret |-> hasMessages /\ hasDefaultTitle(cs.ret.title)]

\* ------------------------------------------------- state of the model
RECURSIVE SumMsgs(_, _)
SumMsgs(sessions, i) ==
    IF i > Len(sessions) THEN 0
    ELSE Len(sessions[i].messages) + SumMsgs(sessions, i + 1)

TotalMsgs(st) == SumMsgs(getSessions(st), 1)

\* the store state the next operation starts from
Store == [has |-> ls.has, list |-> ls.list, cur |-> ls.cur, next |-> nextId]

\* the run stays within the bounds
InBounds(st) == st.next <= MaxIds + 1 /\ TotalMsgs(st) <= MaxTotalMsgs

Commit(st) ==
    /\ InBounds(st)
    /\ ls' = [has |-> st.has, list |-> st.list, cur |-> st.cur]
    /\ nextId' = st.next

\* ids a caller can name: every id handed out so far, and one never used
ArgIds == (1..(nextId - 1)) \cup {GhostId}

StoreMessages == {[role |-> "user", content |-> "a", mode |-> "chat"],
                  [role |-> "assistant", content |-> "b", mode |-> "chat"]}
StoreTitles == {"Demo", DefaultTitle}

\* ------------------------------------------------- tabs
Tabs == {1, 2}

NoSession == [id |-> NoId, title |-> "", messages |-> <<>>]

\* a tab that runs no store operation
IdleTab == [pc |-> "idle", op |-> "none", arg |-> NoId, sessions |-> <<>>,
            csessions |-> <<>>, newSession |-> NoSession,
            currentSession |-> NoSession, ret |-> "done",
            view |-> [list |-> <<>>, cur |-> NoId]]

NoTabs == [loc |-> [t \in Tabs |-> IdleTab], writer |-> 0]

\* ------------------------------------------------- logger
maxBufferSize == 50

\* the levels of a LogEntry
Levels == {"debug", "info", "warn", "error"}

\* The logger after construction.  Log entries and metrics are named by the
\* order of their creation; the constructor has logged 'Session started'
\* (entry 1, level info: no flush).  flushes holds the locals of the flush
\* calls that await a POST, delivered counts how often the backend has
\* received each log entry, started counts the flush calls that sent.
NewLogger == [logBuffer |-> <<1>>, performanceBuffer |-> <<>>, flushes |-> {},
              made |-> 1, measured |-> 0, started |-> 0,
              delivered |-> [e \in {1} |-> 0]]

Init ==
    /\ ls = [has |-> FALSE, list |-> <<>>, cur |-> NoId]
    /\ nextId = 1
    /\ lastOp = [op |-> "none"]
    /\ messages = <<>>
    /\ input = ""
    /\ isLoading = FALSE
    /\ isConnected = FALSE
    /\ mode = "chat"
    /\ isExpressiveMode = FALSE
    /\ currentSession = NoId
    /\ mounted = FALSE
    /\ inflight = <<>>
    /\ asked = {}
    /\ tabs = NoTabs
    /\ logger = NewLogger

\* ------------------------------------------------- store operations
OpSetCurrentSessionId ==
    \E id \in ArgIds :
        /\ Commit(setCurrentSessionId(Store, id))
        /\ lastOp' = [op |-> "setCurrentSessionId", arg |-> id]
        /\ UNCHANGED uiVars

OpCreateNewSession ==
    \E title \in TitleArgs :
        LET r == createNewSession(Store, title) IN
        /\ Commit(r.st)
        /\ lastOp' = [op |-> "createNewSession", arg |-> title, ret |-> r.ret]
        /\ UNCHANGED uiVars

OpGetCurrentSession ==
    LET r == getCurrentSession(Store) IN
    /\ Commit(r.st)
    /\ lastOp' = [op |-> "getCurrentSession", ret |-> r.ret,
                   created |-> r.st.next # nextId]
    /\ UNCHANGED uiVars

OpAddMessage ==
    \E message \in StoreMessages :
        LET r == addMessage(Store, message) IN
        /\ Commit(r.st)
        /\ lastOp' = [op |-> "addMessage", arg |-> message, ret |-> r.ret,
                       reinserted |-> r.st.next # nextId]
        /\ UNCHANGED uiVars

OpUpdateSessionTitle ==
    \E id \in ArgIds, title \in StoreTitles :
        /\ Commit(updateSessionTitle(Store, id, title))
        /\ lastOp' = [op |-> "updateSessionTitle", arg |-> id, title |-> title]
        /\ UNCHANGED uiVars

OpNeedsTitleGeneration ==
    LET r == needsTitleGeneration(Store) IN
    /\ Commit(r.st)
    /\ lastOp' = [op |-> "needsTitleGeneration", ret |-> r.ret]
    /\ UNCHANGED uiVars

OpGetConversationHistory ==
    \E limit \in 0..MaxLimit :
        LET r == getConversationHistory(Store, limit) IN
        /\ Commit(r.st)
        /\ lastOp' = [op |-> "getConversationHistory", arg |-> limit, ret |-> r.ret]
        /\ UNCHANGED uiVars

OpDeleteSession ==
    \E id \in ArgIds :
        /\ Commit(deleteSession(Store, id))
        /\ lastOp' = [op |-> "deleteSession", arg |-> id,
                       wasCurrent |-> id = ls.cur,
                       wasListed |-> getSession(Store, id).found]
        /\ UNCHANGED uiVars

OpClearAllSessions ==
    /\ Commit(clearAllSessions(Store))
    /\ lastOp' = [op |-> "clearAllSessions"]
    /\ UNCHANGED uiVars

OpSwitchToSession ==
    \E id \in ArgIds :
        LET r == switchToSession(Store, id) IN
        /\ Commit(r.st)
        /\ lastOp' = [op |-> "switchToSession", arg |-> id, ret |-> r.ret]
        /\ UNCHANGED uiVars

Next ==
    \/ OpSetCurrentSessionId
    \/ OpCreateNewSession
    \/ OpGetCurrentSession
    \/ OpAddMessage
    \/ OpUpdateSessionTitle
    \/ OpNeedsTitleGeneration
    \/ OpGetConversationHistory
    \/ OpDeleteSession
    \/ OpClearAllSessions
    \/ OpSwitchToSession

Spec == Init /\ [][Next]_vars

\* the ids of a listing
IdsOf(sessions) == {sessions[i].id : i \in DOMAIN sessions}

\* ------------------------------------------------- the composer
HistoryLimit == 10              \* getConversationHistory(10) in sendMessage

Modes == {"chat", "rag"}
Inputs == {"a "}
Replies == {"", "r"}
ServerTitles == {Undefined, "Trip"}

\* what lastOp records for a handler that no claim observes
UiEvent == [op |-> "event"]

\* String.prototype.trim on the texts the composer is given
Trim(text) == IF text = "a " THEN "a" ELSE IF text = " " THEN "" ELSE text

\* disabled={!isConnected || isLoading} on the textarea
TextareaEnabled == isConnected /\ ~isLoading

\* disabled={!input.trim() || !isConnected || isLoading} on the send button
SendButtonEnabled == Trim(input) # "" /\ isConnected /\ ~isLoading

\* the loading flag left unset when a request is issued
SendingFlag_Unset == FALSE

\* setIsLoading(true) once the user message is stored
SendingFlag == TRUE

\* session.messages.map(...) of loadCurrentSession: mode: msg.mode || 'rag'
ToChatMessages(msgs) ==
    [i \in 1..Len(msgs) |->
        [role |-> msgs[i].role, content |-> msgs[i].content,
         mode |-> IF msgs[i].mode = Undefined THEN "rag" ELSE msgs[i].mode]]

\* loadCurrentSession, from store state st: the store state it leaves and
\* the component state it sets
loadCurrentSession(st) ==
    LET cs == getCurrentSession(st)
    IN  [st |-> cs.st, currentSession |-> cs.ret.id,
         messages |-> ToChatMessages(cs.ret.messages)]

\* the nominal mode sent whatever the toggle says
effectiveMode_Nominal(m, expressive) == m

\* the effective mode of a request
effectiveMode(m, expressive) ==
    IF m = "chat" /\ expressive THEN "expressive" ELSE m

\* useEffect(() => { checkConnection(); loadCurrentSession(); }, [])
Mount ==
    /\ ~mounted
    /\ LET l == loadCurrentSession(Store) IN
        /\ Commit(l.st)
        /\ currentSession' = l.currentSession
        /\ messages' = l.messages
    /\ mounted' = TRUE
    /\ lastOp' = UiEvent
    /\ UNCHANGED <<input, isLoading, isConnected, mode, isExpressiveMode,
                   inflight, asked, tabs, logger>>

\* checkConnection completes: the health check answered or failed
CheckConnectionDone ==
    /\ mounted
    /\ \E ok \in BOOLEAN :
        /\ isConnected' = ok
        /\ lastOp' = UiEvent
    /\ UNCHANGED <<ls, nextId, messages, input, isLoading, mode,
                   isExpressiveMode, currentSession, mounted, inflight, asked, tabs, logger>>

\* onChange of the textarea
SetInput ==
    /\ mounted
    /\ TextareaEnabled
    /\ \E text \in Inputs : input' = text
    /\ lastOp' = UiEvent
    /\ UNCHANGED <<ls, nextId, messages, isLoading, isConnected, mode,
                   isExpressiveMode, currentSession, mounted, inflight, asked, tabs, logger>>

\* onValueChange of the mode select
SetMode ==
    /\ mounted
    /\ \E newMode \in Modes :
        /\ mode' = newMode
        /\ isExpressiveMode' = IF newMode # "chat" THEN FALSE ELSE isExpressiveMode
    /\ lastOp' = UiEvent
    /\ UNCHANGED <<ls, nextId, messages, input, isLoading, isConnected,
                   currentSession, mounted, inflight, asked, tabs, logger>>

\* onClick of the expressive toggle, rendered only in chat mode
ToggleExpressive ==
    /\ mounted
    /\ mode = "chat"
    /\ isExpressiveMode' = ~isExpressiveMode
    /\ lastOp' = UiEvent
    /\ UNCHANGED <<ls, nextId, messages, input, isLoading, isConnected, mode,
                   currentSession, mounted, inflight, asked, tabs, logger>>

\* handleSend with the request built before the user message is stored
SendBody_RequestFirst(maxMsgs) ==
    LET content == Trim(input)
        userMessage == [role |-> "user", content |-> content, mode |-> mode]
        n == needsTitleGeneration(Store)
        h0 == getConversationHistory(n.st, HistoryLimit)
        a == addMessage(h0.st, userMessage)
        h == [st |-> a.st, ret |-> h0.ret]
        request == [message |-> content,
                    mode |-> effectiveMode(mode, isExpressiveMode),
                    conversation_history |-> h.ret,
                    generate_title |-> n.ret,
                    nominal |-> mode,
                    sentIn |-> getCurrentSessionId(h.st)]
    IN  /\ Len(inflight) < MaxInflight
        /\ TotalMsgs(h.st) <= maxMsgs
        /\ h.st.next <= MaxIds + 1
        /\ ls' = [has |-> h.st.has, list |-> h.st.list, cur |-> h.st.cur]
        /\ nextId' = h.st.next
        /\ messages' = Append(messages, userMessage)
        /\ input' = ""
        /\ isLoading' = SendingFlag
        /\ inflight' = Append(inflight, request)
        /\ asked' = IF request.generate_title
                    THEN asked \cup {request.sentIn} ELSE asked
        /\ UNCHANGED <<tabs, logger>>
        /\ UNCHANGED <<isConnected, mode, isExpressiveMode, currentSession, mounted>>

\* handleSend past its guard, up to the await of the POST.  A request keeps,
\* next to the body of the POST, the mode its closure holds (nominal) and
\* the session that was current when it was sent (sentIn).
\* maxMsgs bounds the messages the store holds after the send.
SendBody(maxMsgs) ==
    LET content == Trim(input)
        userMessage == [role |-> "user", content |-> content, mode |-> mode]
        a == addMessage(Store, userMessage)
        n == needsTitleGeneration(a.st)
        h == getConversationHistory(n.st, HistoryLimit)
        request == [message |-> content,
                    mode |-> effectiveMode(mode, isExpressiveMode),
                    conversation_history |-> h.ret,
                    generate_title |-> n.ret,
                    nominal |-> mode,
                    sentIn |-> getCurrentSessionId(h.st)]
    IN  /\ Len(inflight) < MaxInflight
        /\ TotalMsgs(h.st) <= maxMsgs
        /\ h.st.next <= MaxIds + 1
        /\ ls' = [has |-> h.st.has, list |-> h.st.list, cur |-> h.st.cur]
        /\ nextId' = h.st.next
        /\ messages' = Append(messages, userMessage)
        /\ input' = ""
        /\ isLoading' = SendingFlag
        /\ inflight' = Append(inflight, request)
        /\ asked' = IF request.generate_title
                    THEN asked \cup {request.sentIn} ELSE asked
        /\ UNCHANGED <<tabs, logger>>
        /\ UNCHANGED <<isConnected, mode, isExpressiveMode, currentSession, mounted>>

HandleSendBody == SendBody(MaxTotalMsgs)

\* an event that reaches no handler, or a handler that returns at once
NothingHappens ==
    UNCHANGED <<ls, nextId, messages, input, isLoading, isConnected, mode,
                isExpressiveMode, currentSession, mounted, inflight, asked, tabs, logger>>

\* if (!input.trim() || isLoading) return;
handleSendWithin(maxMsgs) ==
    IF Trim(input) = "" \/ isLoading THEN NothingHappens ELSE SendBody(maxMsgs)

handleSend == handleSendWithin(MaxTotalMsgs)

\* the user presses Enter in the textarea (handleKeyDown)
KeyDownEnterWithin(maxMsgs) ==
    /\ mounted
    /\ IF TextareaEnabled THEN handleSendWithin(maxMsgs) ELSE NothingHappens
    /\ lastOp' = [op |-> "keyDownEnter", issued |-> inflight' # inflight]

KeyDownEnter == KeyDownEnterWithin(MaxTotalMsgs)

\* the user clicks the send button
ClickSend ==
    /\ mounted
    /\ IF SendButtonEnabled THEN handleSend ELSE NothingHappens
    /\ lastOp' = [op |-> "clickSend", issued |-> inflight' # inflight]

\* the reply stored in place of the session that was current at send time
storeReply_ToSender(st, botMessage, session_title, request) ==
    LET sessions == getSessions(st)
        i == FindIndex(sessions, request.sentIn)
        withMsg == [sessions EXCEPT ![i].messages = Append(@, botMessage)]
        withTitle == IF session_title # Undefined
                     THEN [withMsg EXCEPT ![i].title = session_title]
                     ELSE withMsg
    IN  IF i # 0 THEN saveSessions(st, withTitle) ELSE addMessage(st, botMessage).st

\* the store calls of handleSend after the await: the reply is added, then
\* a generated title is given to the session getCurrentSession returns
storeReply(st, botMessage, session_title, request) ==
    LET a == addMessage(st, botMessage)
        cs == getCurrentSession(a.st)
    IN  IF session_title # Undefined
        THEN updateSessionTitle(cs.st, cs.ret.id, session_title)
        ELSE a.st

\* the POST answered: handleSend resumes after the await
ResponseOk ==
    /\ inflight # <<>>
    /\ \E k \in DOMAIN inflight, reply \in Replies, session_title \in ServerTitles :
        LET request == inflight[k]
            botMessage == [role |-> "assistant",
                           content |-> IF reply = "" THEN NoReplyText ELSE reply,
                           mode |-> request.nominal]
            st2 == storeReply(Store, botMessage, session_title, request)
        IN  /\ Commit(st2)
            /\ messages' = Append(messages, botMessage)
            /\ isLoading' = FALSE
            /\ inflight' = [i \in 1..(Len(inflight) - 1) |->
                               IF i < k THEN inflight[i] ELSE inflight[i + 1]]
            /\ UNCHANGED <<asked, tabs, logger>>
            /\ lastOp' = [op |-> "responseOk", sentIn |-> request.sentIn,
                           mode |-> request.mode, reply |-> reply,
                           stored |-> botMessage, title |-> session_title]
    /\ UNCHANGED <<input, isConnected, mode, isExpressiveMode, currentSession,
                   mounted>>

\* the catch branch of handleSend without the finally block
ResponseFailed_NoFinally ==
    /\ inflight # <<>>
    /\ \E k \in DOMAIN inflight :
        LET errorMessage == [role |-> "assistant", content |-> ErrorText,
                             mode |-> "error"]
        IN  /\ messages' = Append(messages, errorMessage)
            /\ inflight' = [i \in 1..(Len(inflight) - 1) |->
                               IF i < k THEN inflight[i] ELSE inflight[i + 1]]
            /\ lastOp' = [op |-> "responseFailed"]
    /\ UNCHANGED <<ls, nextId, input, isLoading, isConnected, mode,
                   isExpressiveMode, currentSession, mounted, asked, tabs, logger>>

\* the POST failed: the catch and finally branches of handleSend
ResponseFailed ==
    /\ inflight # <<>>
    /\ \E k \in DOMAIN inflight :
        LET errorMessage == [role |-> "assistant", content |-> ErrorText,
                             mode |-> "error"]
        IN  /\ messages' = Append(messages, errorMessage)
            /\ isLoading' = FALSE
            /\ inflight' = [i \in 1..(Len(inflight) - 1) |->
                               IF i < k THEN inflight[i] ELSE inflight[i + 1]]
            /\ UNCHANGED <<asked, tabs, logger>>
            /\ lastOp' = [op |-> "responseFailed"]
    /\ UNCHANGED <<ls, nextId, input, isConnected, mode, isExpressiveMode,
                   currentSession, mounted>>

\* the "New Chat" button
UiCreateNewSession ==
    /\ mounted
    /\ LET r == createNewSession(Store, Undefined) IN
        /\ Commit(r.st)
        /\ currentSession' = r.ret.id
    /\ messages' = <<>>
    /\ lastOp' = UiEvent
    /\ UNCHANGED <<input, isLoading, isConnected, mode, isExpressiveMode,
                   mounted, inflight, asked, tabs, logger>>

\* a click on a session of the list
UiSwitchToSession ==
    /\ mounted
    /\ \E sessionId \in IdsOf(getSessions(Store)) :
        LET r == switchToSession(Store, sessionId)
            l == loadCurrentSession(r.st)
        IN  IF r.ret
            THEN /\ Commit(l.st)
                 /\ currentSession' = l.currentSession
                 /\ messages' = l.messages
            ELSE UNCHANGED <<ls, nextId, currentSession, messages>>
    /\ lastOp' = UiEvent
    /\ UNCHANGED <<input, isLoading, isConnected, mode, isExpressiveMode,
                   mounted, inflight, asked, tabs, logger>>

\* a click on the trash button of a session of the list
UiDeleteSession ==
    /\ mounted
    /\ \E sessionId \in IdsOf(getSessions(Store)) :
        LET st1 == deleteSession(Store, sessionId)
            l == loadCurrentSession(st1)
        IN  IF currentSession = sessionId
            THEN /\ Commit(l.st)
                 /\ currentSession' = l.currentSession
                 /\ messages' = l.messages
            ELSE /\ Commit(st1)
                 /\ UNCHANGED <<currentSession, messages>>
    /\ lastOp' = UiEvent
    /\ UNCHANGED <<input, isLoading, isConnected, mode, isExpressiveMode,
                   mounted, inflight, asked, tabs, logger>>

\* what the user leaves in the rename input: blanks, a plain title, a title
\* that begins with "Chat "
EditingTitles == {" ", "Demo", "Chat notes"}

\* saveTitle: the rename input loses focus or Enter is pressed in it
SaveTitle ==
    /\ mounted
    /\ \E sessionId \in IdsOf(getSessions(Store)), editingTitle \in EditingTitles :
        IF Trim(editingTitle) # ""
        THEN Commit(updateSessionTitle(Store, sessionId, Trim(editingTitle)))
        ELSE UNCHANGED <<ls, nextId>>
    /\ lastOp' = UiEvent
    /\ UNCHANGED uiVars

\* NextUI keeps the nominal mode fixed: the mode controls (SetMode,
\* ToggleExpressive) decide neither whether a request is issued nor where
\* its reply is stored.
NextUI ==
    \/ Mount
    \/ CheckConnectionDone
    \/ SetInput
    \/ KeyDownEnter
    \/ ClickSend
    \/ ResponseOk
    \/ ResponseFailed
    \/ UiCreateNewSession
    \/ UiSwitchToSession
    \/ UiDeleteSession

SpecUI == Init /\ [][NextUI]_vars

\* ------------------------------------------------- vocabulary of the claims
Listing == getSessions(Store)

\* the sessions of a listing that carry the given id
WithId(sessions, id) == {i \in DOMAIN sessions : sessions[i].id = id}

\* exactly one session is current: the pointer names one listed session
OneCurrent == ls.cur # NoId /\ Cardinality(WithId(Listing, ls.cur)) = 1

\* the pointer is absent or names no listed session
Dangling == ls.cur = NoId \/ ls.cur \notin IdsOf(Listing)

IsPrefix(s, t) == Len(s) <= Len(t) /\ SubSeq(t, 1, Len(s)) = s

\* the messages of the session with the given id, <<>> when it is not listed
MessagesOf(sessions, id) ==
    IF id \in IdsOf(sessions)
    THEN sessions[CHOOSE i \in WithId(sessions, id) : TRUE].messages
    ELSE <<>>

RECURSIVE Without(_, _)
Without(sessions, id) ==
    IF sessions = <<>> THEN <<>>
    ELSE IF Head(sessions).id = id THEN Without(Tail(sessions), id)
    ELSE <<Head(sessions)>> \o Without(Tail(sessions), id)

Min(a, b) == IF a < b THEN a ELSE b

\* the last n elements of a sequence (all of them when it is shorter)
LastN(seq, n) == SubSeq(seq, Len(seq) - Min(n, Len(seq)) + 1, Len(seq))

\* ------------------------------------------------- C1
\* C1: getCurrentSession always returns a session.  When the pointer is
\* absent or names no listed session (an empty store included) it creates
\* exactly one new session, at the front of the listing, returns it, and
\* afterwards the pointer holds the new session's id and the listing
\* contains it; otherwise it returns the listed session the pointer names.
C1_GetCurrentSessionTotal ==
    [][lastOp'.op = "getCurrentSession" =>
        LET r == lastOp'.ret IN
        IF Dangling
        THEN /\ r.id \notin IdsOf(Listing)
             /\ r.messages = <<>>
             /\ Listing' = <<r>> \o Listing
             /\ ls'.cur = r.id
             /\ Cardinality(WithId(Listing', r.id)) = 1
        ELSE /\ r.id = ls.cur
             /\ \E i \in DOMAIN Listing : Listing[i] = r
             /\ Listing' = Listing
             /\ ls'.cur = ls.cur]_vars

\* the pointer named a deleted session and getCurrentSession made a new one
C1_Witness ==
    /\ lastOp.op = "getCurrentSession"
    /\ lastOp.created
    /\ Len(Listing) >= 2
    /\ ls.cur = lastOp.ret.id

\* ------------------------------------------------- C2
\* C2 (as stated): in every state reached through the store's operations
\* the pointer holds the id of one session that is present in the listing.
C2_AlwaysOneCurrent == lastOp.op # "none" => OneCurrent

ResolvingOps == {"createNewSession", "getCurrentSession", "addMessage",
                 "needsTitleGeneration", "getConversationHistory",
                 "clearAllSessions"}

\* C2 (amended): exactly one session is current after every operation
\* that resolves or creates the current session, after deleting the
\* current session and after a successful switchToSession; once it holds,
\* every operation but setCurrentSessionId keeps it.
C2_OneCurrentOnceResolved ==
    [][/\ lastOp'.op \in ResolvingOps => OneCurrent'
       /\ (lastOp'.op = "deleteSession" /\ lastOp'.wasCurrent) => OneCurrent'
       /\ (lastOp'.op = "switchToSession" /\ lastOp'.ret) => OneCurrent'
       /\ (OneCurrent /\ lastOp'.op # "setCurrentSessionId") => OneCurrent'
      ]_vars

\* all sessions were cleared and one session is current again
C2_Witness ==
    /\ lastOp.op = "clearAllSessions"
    /\ OneCurrent
    /\ nextId > 2

\* ------------------------------------------------- C3
\* C3: messages are append-only.  Across any store operation every session
\* that stays in the listing keeps its previous messages as a prefix of its
\* new ones, and addMessage extends only the current session, by exactly
\* the one new message at the end.
C3_AppendOnly ==
    [][/\ \A id \in IdsOf(Listing) \cap IdsOf(Listing') :
            IsPrefix(MessagesOf(Listing, id), MessagesOf(Listing', id))
       /\ lastOp'.op = "addMessage" =>
            /\ MessagesOf(Listing', ls'.cur) =
                  Append(MessagesOf(Listing, ls'.cur), lastOp'.arg)
            /\ \A id \in IdsOf(Listing') \ {ls'.cur} :
                  /\ id \in IdsOf(Listing)
                  /\ MessagesOf(Listing', id) = MessagesOf(Listing, id)
      ]_vars

\* a second message was appended to a session that has a neighbour
C3_Witness ==
    /\ lastOp.op = "addMessage"
    /\ Len(MessagesOf(Listing, ls.cur)) = 2
    /\ Len(Listing) >= 2

\* ------------------------------------------------- C4
\* C4: for every limit N >= 0, getConversationHistory(N) returns exactly
\* the last min(N, total) messages of the current session, in call order,
\* as {role, content} pairs.
C4_HistoryIsLastN ==
    lastOp.op = "getConversationHistory" =>
        LET msgs == LastN(MessagesOf(Listing, ls.cur), lastOp.arg) IN
        /\ Len(lastOp.ret) = Min(lastOp.arg, Len(MessagesOf(Listing, ls.cur)))
        /\ lastOp.ret = [i \in 1..Len(msgs) |->
                            [role |-> msgs[i].role, content |-> msgs[i].content]]

\* ------------------------------------------------- C5
\* C5: after deleteSession(id) where id is the current session, the pointer
\* names exactly one session present in the listing and the deleted session
\* is no longer listed.
C5_DeleteCurrentRepoints ==
    [][(lastOp'.op = "deleteSession" /\ lastOp'.arg = ls.cur) =>
            /\ OneCurrent'
            /\ lastOp'.arg \notin IdsOf(Listing')
            /\ ls'.cur # lastOp'.arg]_vars

\* the listed current session was deleted and a fresh one is current
C5_Witness ==
    /\ lastOp.op = "deleteSession"
    /\ lastOp.wasCurrent
    /\ lastOp.wasListed
    /\ lastOp.arg \notin IdsOf(Listing)
    /\ OneCurrent

\* ------------------------------------------------- C6
\* C6: deleteSession(id) where id is not the current session leaves the
\* pointer unchanged and removes only the session with that id; the other
\* sessions and their order stay the same.
C6_DeleteOtherFrame ==
    [][(lastOp'.op = "deleteSession" /\ lastOp'.arg # ls.cur) =>
            /\ ls'.cur = ls.cur
            /\ Listing' = Without(Listing, lastOp'.arg)]_vars

\* a listed session that was not current was deleted, the current one stays
C6_Witness ==
    /\ lastOp.op = "deleteSession"
    /\ ~lastOp.wasCurrent
    /\ lastOp.wasListed
    /\ OneCurrent

\* ------------------------------------------------- C7
\* C7: switchToSession(id) returns true and sets the pointer to id exactly
\* when id is in the listing; otherwise it returns false and leaves the
\* pointer and the listing unchanged.
C7_SwitchValidates ==
    [][lastOp'.op = "switchToSession" =>
            /\ lastOp'.ret = (lastOp'.arg \in IdsOf(Listing))
            /\ lastOp'.ret => ls'.cur = lastOp'.arg
            /\ ~lastOp'.ret => ls'.cur = ls.cur
            /\ Listing' = Listing
            /\ ls'.has = ls.has]_vars

\* a switch to an id that no session has was refused, the pointer stays
C7_Witness ==
    /\ lastOp.op = "switchToSession"
    /\ lastOp.ret = FALSE
    /\ lastOp.arg \notin IdsOf(Listing)
    /\ OneCurrent
    /\ Len(Listing) >= 2

\* ------------------------------------------------- C8
\* C8: addMessage never drops the message.  After it the current session is
\* listed and ends with the new message; when the pointer named no session
\* of the listing that was read, the session is put at the front of that
\* listing with the message appended.
C8_AddMessageNeverDrops ==
    [][lastOp'.op = "addMessage" =>
            /\ OneCurrent'
            /\ MessagesOf(Listing', ls'.cur) # <<>>
            /\ LastN(MessagesOf(Listing', ls'.cur), 1) = <<lastOp'.arg>>
            /\ lastOp'.ret = lastOp'.arg
            /\ Dangling =>
                  /\ Listing' # <<>>
                  /\ Head(Listing').id = ls'.cur
                  /\ Head(Listing').messages = <<lastOp'.arg>>
                  /\ Tail(Listing') = Listing]_vars

\* the pointer was stale: the message went into a session put at the front
C8_Witness ==
    /\ lastOp.op = "addMessage"
    /\ lastOp.reinserted
    /\ Len(Listing) >= 2
    /\ Head(Listing).messages = <<lastOp.arg>>

\* ------------------------------------------------- C9
\* C9: when a chat request fails, an assistant message with the fixed
\* apology text and mode "error" is appended to the current session in the
\* store, so the error is part of the persisted transcript.
C9_ErrorPersisted ==
    lastOp.op = "responseFailed" =>
        /\ OneCurrent
        /\ LastN(MessagesOf(Listing, ls.cur), 1) =
              <<[role |-> "assistant", content |-> ErrorText, mode |-> "error"]>>

\* ------------------------------------------------- C10
\* C10: at most one chat request of the composer is in flight at any time,
\* whatever send attempts (Enter key, send button) are made meanwhile.
C10_OneRequestInFlight == Len(inflight) <= 1

\* Enter was pressed while a request was in flight and issued nothing
C10_Witness ==
    /\ lastOp.op = "keyDownEnter"
    /\ ~lastOp.issued
    /\ Len(inflight) = 1
    /\ isLoading

\* ------------------------------------------------- a persistent area that
\* refuses writes.  `full` says that every localStorage.setItem of the
\* operation throws (QuotaExceededError); operations return [st, threw, ret],
\* threw telling whether the exception left the operation.

\* saveSessions: the setItem is inside try/catch, a failed save is dropped
saveSessionsQuota(st, sessions, full) ==
    IF full THEN st ELSE saveSessions(st, sessions)

\* setCurrentSessionId: the setItem is not guarded
setCurrentSessionIdQuota(st, sessionId, full) ==
    [st |-> IF full THEN st ELSE setCurrentSessionId(st, sessionId),
     threw |-> full]

createNewSessionQuota(st, title, full) ==
    LET newSession == [id |-> st.next,
                       title |-> IF title = Undefined THEN DefaultTitle ELSE title,
                       messages |-> <<>>]
        st1 == saveSessionsQuota(st, <<newSession>> \o getSessions(st), full)
        s == setCurrentSessionIdQuota(st1, newSession.id, full)
    IN  [st |-> [s.st EXCEPT !.next = @ + 1], threw |-> s.threw,
         ret |-> newSession]

getCurrentSessionQuota(st, full) ==
    LET currentId == getCurrentSessionId(st)
    IN  IF currentId # NoId /\ getSession(st, currentId).found
        THEN [st |-> st, threw |-> FALSE,
              ret |-> getSession(st, currentId).session]
        ELSE createNewSessionQuota(st, Undefined, full)

addMessageQuota(st, message, full) ==
    LET sessions == getSessions(st)
        cs == getCurrentSessionQuota(st, full)
        sessionIndex == FindIndex(sessions, cs.ret.id)
        updated ==
            IF sessionIndex # 0
            THEN [sessions EXCEPT ![sessionIndex].messages = Append(@, message)]
            ELSE <<[cs.ret EXCEPT !.messages = Append(@, message)]>> \o sessions
    IN  IF cs.threw
        THEN [st |-> cs.st, threw |-> TRUE]
        ELSE [st |-> saveSessionsQuota(cs.st, updated, full), threw |-> FALSE]

updateSessionTitleQuota(st, sessionId, title, full) ==
    LET sessions == getSessions(st)
        sessionIndex == FindIndex(sessions, sessionId)
    IN  [st |-> IF sessionIndex # 0
                THEN saveSessionsQuota(
                        st, [sessions EXCEPT ![sessionIndex].title = title], full)
                ELSE st,
         threw |-> FALSE]

deleteSessionQuota(st, sessionId, full) ==
    LET st1 == saveSessionsQuota(st, FilterOut(getSessions(st), sessionId), full)
    IN  IF getCurrentSessionId(st1) = sessionId
        THEN [st |-> createNewSessionQuota(st1, Undefined, full).st,
              threw |-> createNewSessionQuota(st1, Undefined, full).threw]
        ELSE [st |-> st1, threw |-> FALSE]

\* the two removeItem calls succeed, the createNewSession that follows writes
clearAllSessionsQuota(st, full) ==
    LET r == createNewSessionQuota(
                [st EXCEPT !.has = FALSE, !.list = <<>>, !.cur = NoId],
                Undefined, full)
    IN  [st |-> r.st, threw |-> r.threw]

switchToSessionQuota(st, sessionId, full) ==
    IF getSession(st, sessionId).found
    THEN setCurrentSessionIdQuota(st, sessionId, full)
    ELSE [st |-> st, threw |-> FALSE]

\* one store operation on a persistent area that may refuse its writes
QuotaGetSessions ==
    /\ lastOp' = [op |-> "getSessions", threw |-> FALSE,
                  ret |-> getSessions(Store)]
    /\ UNCHANGED <<ls, nextId>>
    /\ UNCHANGED uiVars

QuotaCreateNewSession ==
    \E full \in BOOLEAN :
        LET r == createNewSessionQuota(Store, Undefined, full) IN
        /\ Commit(r.st)
        /\ lastOp' = [op |-> "createNewSession", full |-> full, threw |-> r.threw]
        /\ UNCHANGED uiVars

QuotaGetCurrentSession ==
    \E full \in BOOLEAN :
        LET r == getCurrentSessionQuota(Store, full) IN
        /\ Commit(r.st)
        /\ lastOp' = [op |-> "getCurrentSession", full |-> full, threw |-> r.threw]
        /\ UNCHANGED uiVars

QuotaSetCurrentSessionId ==
    \E full \in BOOLEAN, id \in ArgIds :
        LET r == setCurrentSessionIdQuota(Store, id, full) IN
        /\ Commit(r.st)
        /\ lastOp' = [op |-> "setCurrentSessionId", full |-> full, threw |-> r.threw]
        /\ UNCHANGED uiVars

QuotaAddMessage ==
    \E full \in BOOLEAN, message \in StoreMessages :
        LET r == addMessageQuota(Store, message, full) IN
        /\ Commit(r.st)
        /\ lastOp' = [op |-> "addMessage", full |-> full, threw |-> r.threw]
        /\ UNCHANGED uiVars

QuotaUpdateSessionTitle ==
    \E full \in BOOLEAN, id \in ArgIds :
        LET r == updateSessionTitleQuota(Store, id, "Demo", full) IN
        /\ Commit(r.st)
        /\ lastOp' = [op |-> "updateSessionTitle", full |-> full, threw |-> r.threw]
        /\ UNCHANGED uiVars

QuotaDeleteSession ==
    \E full \in BOOLEAN, id \in ArgIds :
        LET r == deleteSessionQuota(Store, id, full) IN
        /\ Commit(r.st)
        /\ lastOp' = [op |-> "deleteSession", full |-> full, threw |-> r.threw]
        /\ UNCHANGED uiVars

QuotaClearAllSessions ==
    \E full \in BOOLEAN :
        LET r == clearAllSessionsQuota(Store, full) IN
        /\ Commit(r.st)
        /\ lastOp' = [op |-> "clearAllSessions", full |-> full, threw |-> r.threw]
        /\ UNCHANGED uiVars

QuotaSwitchToSession ==
    \E full \in BOOLEAN, id \in ArgIds :
        LET r == switchToSessionQuota(Store, id, full) IN
        /\ Commit(r.st)
        /\ lastOp' = [op |-> "switchToSession", full |-> full, threw |-> r.threw]
        /\ UNCHANGED uiVars

NextQuota ==
    \/ QuotaGetSessions
    \/ QuotaCreateNewSession
    \/ QuotaGetCurrentSession
    \/ QuotaSetCurrentSessionId
    \/ QuotaAddMessage
    \/ QuotaUpdateSessionTitle
    \/ QuotaDeleteSession
    \/ QuotaClearAllSessions
    \/ QuotaSwitchToSession

SpecQuota == Init /\ [][NextQuota]_vars

\* ------------------------------------------------- C11
\* C11: a failure of the persistent area (a write that throws) never leaves
\* a Session Store operation as an exception: getSessions, createNewSession,
\* getCurrentSession, setCurrentSessionId, addMessage, updateSessionTitle,
\* deleteSession, clearAllSessions and switchToSession all return normally.
C11_NoThrowOutward == lastOp.op # "none" => ~lastOp.threw

\* ------------------------------------------------- reading a persisted
\* listing of any content (getSessions, lines 28-47)
MaxRawItems == 2     \* elements of a persisted array
MaxRawMsgs == 1      \* elements of a persisted messages array

\* sequences over S of length at most n
SeqUpTo(S, n) == UNION {[1..k -> S] : k \in 0..n}

\* what a messages array can hold: null, a value without the message
\* fields (a number, an object of another shape), a well-formed message
RawMsgKinds == {"null", "other", "message"}

\* the `messages` property of a persisted object
RawMessages ==
    {[t |-> "absent"], [t |-> "string"]}
        \cup {[t |-> "array", items |-> ms] : ms \in SeqUpTo(RawMsgKinds, MaxRawMsgs)}

\* the elements of a persisted array: null, a primitive, or an object that
\* has the session fields (id, title, dates) or lacks them
RawElements ==
    {[t |-> "null"], [t |-> "number"]}
        \cup [t : {"object"}, shape : {"session", "other"}, messages : RawMessages]

\* JSON values the key can hold
RawValues ==
    {[t |-> "null"], [t |-> "number"], [t |-> "string"], [t |-> "object"]}
        \cup {[t |-> "array", items |-> es] : es \in SeqUpTo(RawElements, MaxRawItems)}

\* localStorage.getItem(STORAGE_KEY): null, "", text that is no JSON, JSON
RawItems ==
    {[kind |-> "missing"], [kind |-> "empty"], [kind |-> "garbage"]}
        \cup {[kind |-> "json", value |-> v] : v \in RawValues}

\* msg => ({...msg, timestamp: new Date(msg.timestamp)}) throws on null only
MessageThrows(m) == m = "null"

\* the callback of parsed.map throws a TypeError: a property of null is
\* read, or .map is called on what is no array
ElementThrows(e) ==
    \/ e.t = "null"
    \/ e.t = "number"
    \/ /\ e.t = "object"
       /\ \/ e.messages.t # "array"
          \/ \E i \in DOMAIN e.messages.items : MessageThrows(e.messages.items[i])

\* the body of the try block, as [ok, value]: ok is FALSE when it throws
TryParseSessions(item) ==
    IF item.kind = "garbage" THEN [ok |-> FALSE]
    ELSE IF item.value.t # "array" THEN [ok |-> FALSE]
    ELSE IF \E i \in DOMAIN item.value.items : ElementThrows(item.value.items[i])
    THEN [ok |-> FALSE]
    ELSE [ok |-> TRUE,
          value |-> [i \in DOMAIN item.value.items |->
                        [shape |-> item.value.items[i].shape,
                         messages |-> item.value.items[i].messages.items,
                         dates |-> "revived"]]]

\* getSessions on an item of any content
getSessionsFrom(item) ==
    IF item.kind \in {"missing", "empty"} THEN <<>>
    ELSE IF TryParseSessions(item).ok THEN TryParseSessions(item).value
    ELSE <<>>

\* the persistent area holds any of the items
InitParse ==
    /\ ls \in {[item |-> item, cur |-> NoId] : item \in RawItems}
    /\ nextId = 1
    /\ lastOp = [op |-> "none"]
    /\ messages = <<>>
    /\ input = ""
    /\ isLoading = FALSE
    /\ isConnected = FALSE
    /\ mode = "chat"
    /\ isExpressiveMode = FALSE
    /\ currentSession = NoId
    /\ mounted = FALSE
    /\ inflight = <<>>
    /\ asked = {}
    /\ tabs = NoTabs
    /\ logger = NewLogger

ParseGetSessions ==
    /\ lastOp' = [op |-> "getSessions", ret |-> getSessionsFrom(ls.item)]
    /\ UNCHANGED <<ls, nextId>>
    /\ UNCHANGED uiVars

\* the item is replaced from outside the store (another page, the user)
ParseItemReplaced ==
    /\ \E item \in RawItems : ls' = [ls EXCEPT !.item = item]
    /\ lastOp' = [op |-> "replaced"]
    /\ UNCHANGED nextId
    /\ UNCHANGED uiVars

NextParse == ParseGetSessions \/ ParseItemReplaced

SpecParse == InitParse /\ [][NextParse]_vars

\* a well-formed array of sessions: every element has the session fields and
\* a messages array of well-formed messages
WellFormedItem(item) ==
    /\ item.kind = "json"
    /\ item.value.t = "array"
    /\ \A i \in DOMAIN item.value.items :
          LET e == item.value.items[i] IN
          /\ e.t = "object"
          /\ e.shape = "session"
          /\ e.messages.t = "array"
          /\ \A j \in DOMAIN e.messages.items : e.messages.items[j] = "message"

\* ------------------------------------------------- C12
\* C12: getSessions returns the empty sequence whenever the persisted
\* listing is missing, unparseable, or parses to a value that is not a
\* well-formed array of sessions.
C12_FailsClosed ==
    (lastOp.op = "getSessions" /\ ~WellFormedItem(ls.item)) => lastOp.ret = <<>>

\* the title of the session with the given id
TitleOf(sessions, id) == sessions[CHOOSE i \in WithId(sessions, id) : TRUE].title

\* ------------------------------------------------- C13
\* C13: a reply, and a title the server generated, are written into the
\* session that is current when the response arrives, not into the session
\* that was current when the request was sent: the current session gains
\* the reply at its end and takes the title, every other session (the
\* sender's included) keeps its messages and title.
C13_ReplyGoesToCurrent ==
    [][lastOp'.op = "responseOk" =>
        /\ ls'.cur = ls.cur
        /\ IdsOf(Listing') = IdsOf(Listing)
        /\ MessagesOf(Listing', ls.cur) =
              Append(MessagesOf(Listing, ls.cur), lastOp'.stored)
        /\ TitleOf(Listing', ls.cur) =
              IF lastOp'.title # Undefined THEN lastOp'.title
              ELSE TitleOf(Listing, ls.cur)
        /\ \A id \in IdsOf(Listing) \ {ls.cur} :
              /\ MessagesOf(Listing', id) = MessagesOf(Listing, id)
              /\ TitleOf(Listing', id) = TitleOf(Listing, id)
      ]_vars

\* the user went to another session while the request was in flight; the
\* reply and the generated title landed there, the sender is still listed
C13_Witness ==
    /\ lastOp.op = "responseOk"
    /\ lastOp.sentIn # ls.cur
    /\ lastOp.sentIn \in IdsOf(Listing)
    /\ lastOp.title # Undefined
    /\ TitleOf(Listing, ls.cur) = lastOp.title
    /\ LastN(MessagesOf(Listing, ls.cur), 1) = <<lastOp.stored>>


\* ------------------------------------------------- titles
\* titles a caller can hand to createNewSession or updateSessionTitle:
\* none, a plain one, one that begins with "Chat ", the generic label
CallerTitles == {Undefined, "Demo", "Chat notes", "New Chat"}

TitleCreateNewSession ==
    \E title \in CallerTitles :
        LET r == createNewSession(Store, title) IN
        /\ Commit(r.st)
        /\ lastOp' = [op |-> "createNewSession", arg |-> title, ret |-> r.ret]
        /\ UNCHANGED uiVars

TitleUpdateSessionTitle ==
    \E id \in ArgIds, title \in CallerTitles \ {Undefined} :
        /\ Commit(updateSessionTitle(Store, id, title))
        /\ lastOp' = [op |-> "updateSessionTitle", arg |-> id, title |-> title]
        /\ UNCHANGED uiVars

NextTitle ==
    \/ TitleCreateNewSession
    \/ TitleUpdateSessionTitle
    \/ OpAddMessage
    \/ OpNeedsTitleGeneration
    \/ OpSwitchToSession

SpecTitle == Init /\ [][NextTitle]_vars

\* the session the pointer names
CurrentOf(sessions) == sessions[CHOOSE i \in WithId(sessions, ls.cur) : TRUE]

\* the titles the store generates by itself: the date-stamped placeholder
\* of createNewSession, and the generic default label
IsAutoDefault(title) == title = DefaultTitle \/ title = "New Chat"

\* ------------------------------------------------- C14
\* C14: needsTitleGeneration returns true if and only if the current
\* session has at least one message and its title is the date-stamped
\* placeholder of createNewSession or the generic default label.
C14_NeedsTitleIffAutoDefault ==
    lastOp.op = "needsTitleGeneration" =>
        /\ OneCurrent
        /\ lastOp.ret = (/\ Len(CurrentOf(Listing).messages) > 0
                         /\ IsAutoDefault(CurrentOf(Listing).title))


\* the chat with the rename control of the session list
NextRename ==
    \/ Mount
    \/ CheckConnectionDone
    \/ SetInput
    \/ KeyDownEnter
    \/ ResponseOk
    \/ ResponseFailed
    \/ UiCreateNewSession
    \/ UiSwitchToSession
    \/ SaveTitle

SpecRename == Init /\ [][NextRename]_vars

\* the titles only an explicit rename gives a session, and that are not the
\* auto-generated default
RenamedTitles == {Trim(t) : t \in EditingTitles} \ {"", DefaultTitle, "New Chat"}

\* ------------------------------------------------- C15
\* C15: once a session carries a title given by an explicit rename to a
\* non-default string, needsTitleGeneration is false for that session in
\* every later state, whatever addMessage, session switches and request /
\* response handling did since.
C15_RenamedNeverNeedsTitle ==
    \A i \in DOMAIN Listing :
        Listing[i].title \in RenamedTitles =>
            ~needsTitleGeneration([Store EXCEPT !.cur = Listing[i].id]).ret


\* ------------------------------------------------- C16
\* C16: title generation is requested once per session: a request that
\* carries generate_title = true is never sent in a session in which an
\* earlier request already carried it.
C16_AskedOncePerSession ==
    [][(Len(inflight') > Len(inflight)
            /\ inflight'[Len(inflight')].generate_title)
         => inflight'[Len(inflight')].sentIn \notin asked]_vars


\* ------------------------------------------------- modes
\* the chat with its mode controls, in one session
NextMode ==
    \/ Mount
    \/ CheckConnectionDone
    \/ SetInput
    \/ SetMode
    \/ ToggleExpressive
    \/ KeyDownEnter
    \/ ResponseOk
    \/ ResponseFailed

SpecMode == Init /\ [][NextMode]_vars

\* the last message of the session the pointer names
LastStored == LET ms == MessagesOf(Listing, ls.cur) IN ms[Len(ms)]

\* ------------------------------------------------- C17
\* C17: the mode of a request is "expressive" exactly when the nominal mode
\* is "chat" and the expressive toggle is on, and is the nominal mode
\* otherwise; the user message is stored under the nominal mode.
C17_EffectiveSentNominalStored ==
    [][Len(inflight') > Len(inflight) =>
        LET request == inflight'[Len(inflight')] IN
        /\ (request.mode = "expressive") <=> (mode = "chat" /\ isExpressiveMode)
        /\ request.mode # "expressive" => request.mode = mode
        /\ LastStored' = [role |-> "user", content |-> request.message,
                          mode |-> mode]
      ]_vars

\* a message sent in chat mode with the toggle on: "expressive" goes to the
\* backend, "chat" into the store
C17_Witness ==
    /\ lastOp.op = "keyDownEnter" /\ lastOp.issued
    /\ mode = "chat" /\ isExpressiveMode
    /\ inflight[Len(inflight)].mode = "expressive"
    /\ LastStored.role = "user" /\ LastStored.mode = "chat"

\* ------------------------------------------------- C18
\* C18: on a successful response the message appended to the store has role
\* assistant, the reply as its content, and the effective mode the request
\* was sent with as its mode.
C18_AssistantStoredWithEffectiveMode ==
    lastOp.op = "responseOk" =>
        /\ LastStored = lastOp.stored
        /\ lastOp.stored.role = "assistant"
        /\ lastOp.reply # "" => lastOp.stored.content = lastOp.reply
        /\ lastOp.stored.mode = lastOp.mode


\* ------------------------------------------------- long conversations
\* the longest conversation a session holds
MaxHistoryMsgs == 12

\* a conversation of n messages: the user's and the backend's in turn
Conversation(n) ==
    [i \in 1..n |-> IF i % 2 = 1
                    THEN [role |-> "user", content |-> "a", mode |-> "chat"]
                    ELSE [role |-> "assistant", content |-> "r", mode |-> "chat"]]

\* the chat is mounted on a store that holds one session, with a
\* conversation of any length and a default or a generated title
InitHistory ==
    /\ \E n \in 0..(MaxHistoryMsgs - 1), title \in {DefaultTitle, "Trip"} :
        /\ ls = [has |-> TRUE,
                 list |-> <<[id |-> 1, title |-> title,
                             messages |-> Conversation(n)]>>,
                 cur |-> 1]
        /\ messages = ToChatMessages(Conversation(n))
    /\ nextId = 2
    /\ lastOp = [op |-> "none"]
    /\ input = ""
    /\ isLoading = FALSE
    /\ isConnected = FALSE
    /\ mode = "chat"
    /\ isExpressiveMode = FALSE
    /\ currentSession = 1
    /\ mounted = TRUE
    /\ inflight = <<>>
    /\ asked = {}
    /\ tabs = NoTabs
    /\ logger = NewLogger

HistoryKeyDownEnter == KeyDownEnterWithin(MaxHistoryMsgs)

NextHistory ==
    \/ CheckConnectionDone
    \/ SetInput
    \/ HistoryKeyDownEnter
    \/ ResponseFailed

SpecHistory == InitHistory /\ [][NextHistory]_vars

\* role and content of each message
RoleAndContent(msgs) ==
    [i \in 1..Len(msgs) |-> [role |-> msgs[i].role, content |-> msgs[i].content]]

\* ------------------------------------------------- C19
\* C19: the request sent for a user message carries, as conversation_history,
\* role and content of at most the last 10 messages the current session
\* holds at send time, which is getConversationHistory(10), and as
\* generate_title what needsTitleGeneration() returns at send time.
C19_RequestCarriesHistoryAndTitleFlag ==
    [][Len(inflight') > Len(inflight) =>
        LET request == inflight'[Len(inflight')] IN
        /\ request.conversation_history =
              RoleAndContent(LastN(MessagesOf(Listing', ls'.cur), 10))
        /\ Len(request.conversation_history) <= 10
        /\ request.conversation_history =
              getConversationHistory(Store', 10).ret
        /\ request.generate_title = needsTitleGeneration(Store').ret
      ]_vars

\* a send in a session that then holds more than 10 messages: the request
\* carries 10 of them, the message just sent last
C19_Witness ==
    /\ lastOp.op = "keyDownEnter" /\ lastOp.issued
    /\ Len(MessagesOf(Listing, ls.cur)) > 10
    /\ Len(inflight[Len(inflight)].conversation_history) = 10
    /\ inflight[Len(inflight)].conversation_history[10] =
          [role |-> "user", content |-> inflight[Len(inflight)].message]
    /\ inflight[Len(inflight)].generate_title


\* ------------------------------------------------- C20
\* C20: createNewSession puts a new session, with a fresh id and no
\* messages, at the front of the listing, makes it current and returns it;
\* after any sequence of store operations the listing holds the sessions
\* most recently created first.
C20_NewestFirst ==
    /\ \A i, j \in DOMAIN Listing : i < j => Listing[i].id > Listing[j].id
    /\ lastOp.op = "createNewSession" =>
          /\ Listing # <<>> /\ Head(Listing) = lastOp.ret
          /\ lastOp.ret.id = nextId - 1
          /\ lastOp.ret.messages = <<>>
          /\ ls.cur = lastOp.ret.id

\* a session created in a store that already lists one: the new one is in
\* front, and current
C20_Witness ==
    /\ lastOp.op = "createNewSession"
    /\ Len(Listing) >= 2
    /\ Head(Listing) = lastOp.ret
    /\ ls.cur = lastOp.ret.id


\* ------------------------------------------------- timestamps
\* the latest instant of the clock
MaxClock == 2

Stamps == 0..MaxClock

\* updateSessionTitle with the clock reading of its new Date()
updateSessionTitleAt_Recreated(st, sessionId, title, now) ==
    LET sessions == getSessions(st)
        sessionIndex == FindIndex(sessions, sessionId)
    IN  IF sessionIndex # 0
        THEN saveSessions(st, [sessions EXCEPT ![sessionIndex].title = title,
                                               ![sessionIndex].createdAt = now,
                                               ![sessionIndex].updatedAt = now])
        ELSE st

updateSessionTitleAt(st, sessionId, title, now) ==
    LET sessions == getSessions(st)
        sessionIndex == FindIndex(sessions, sessionId)
    IN  IF sessionIndex # 0
        THEN saveSessions(st, [sessions EXCEPT ![sessionIndex].title = title,
                                               ![sessionIndex].updatedAt = now])
        ELSE st

\* a session as createNewSession and addMessage leave it, with its dates:
\* created at instant id - 1, one message, last touched at updatedAt
StampedSession(id, updatedAt) ==
    [id |-> id, title |-> DefaultTitle,
     messages |-> <<[role |-> "user", content |-> "a", mode |-> "chat"]>>,
     createdAt |-> id - 1, updatedAt |-> updatedAt]

\* the listings of stamped sessions with ids up to n, newest first
RECURSIVE StampedListings(_)
StampedListings(n) ==
    IF n = 0 THEN {<<>>}
    ELSE StampedListings(n - 1) \cup
         {<<StampedSession(n, u)>> \o rest :
             u \in {t \in Stamps : t >= n - 1}, rest \in StampedListings(n - 1)}

InitStamp ==
    /\ \E list \in StampedListings(MaxIds), cur \in (0..MaxIds) \cup {GhostId} :
        ls = [has |-> TRUE, list |-> list, cur |-> cur]
    /\ nextId = MaxIds + 1
    /\ lastOp = [op |-> "none"]
    /\ messages = <<>>
    /\ input = ""
    /\ isLoading = FALSE
    /\ isConnected = FALSE
    /\ mode = "chat"
    /\ isExpressiveMode = FALSE
    /\ currentSession = NoId
    /\ mounted = FALSE
    /\ inflight = <<>>
    /\ asked = {}
    /\ tabs = NoTabs
    /\ logger = NewLogger

StampUpdateSessionTitle ==
    \E id \in ArgIds, title \in StoreTitles, now \in Stamps :
        /\ Commit(updateSessionTitleAt(Store, id, title, now))
        /\ lastOp' = [op |-> "updateSessionTitle", arg |-> id, title |-> title]
        /\ UNCHANGED uiVars

NextStamp == StampUpdateSessionTitle

SpecStamp == InitStamp /\ [][NextStamp]_vars

\* ------------------------------------------------- C21
\* C21: updateSessionTitle(id, title) changes nothing when id is not in the
\* listing; when it is, it changes only that session's title and updatedAt:
\* its messages and createdAt, every other session, the order of the listing
\* and the pointer stay as they were.
C21_UpdateTitleFrame ==
    [][lastOp'.op = "updateSessionTitle" =>
        /\ ls'.cur = ls.cur
        /\ lastOp'.arg \notin IdsOf(Listing) => ls' = ls
        /\ lastOp'.arg \in IdsOf(Listing) =>
              /\ Len(Listing') = Len(Listing)
              /\ \A i \in DOMAIN Listing :
                    IF Listing[i].id = lastOp'.arg
                    THEN \E now \in Stamps :
                            Listing'[i] = [Listing[i] EXCEPT
                                              !.title = lastOp'.title,
                                              !.updatedAt = now]
                    ELSE Listing'[i] = Listing[i]
      ]_vars

\* the older of two sessions got a new title after its creation; the newer
\* one keeps the default title
C21_Witness ==
    /\ lastOp.op = "updateSessionTitle"
    /\ lastOp.title = "Demo"
    /\ Len(Listing) = 2
    /\ Listing[2].id = lastOp.arg /\ Listing[2].title = "Demo"
    /\ Listing[2].updatedAt > Listing[2].createdAt
    /\ Listing[1].title = DefaultTitle


\* ------------------------------------------------- C22
\* C22: after clearAllSessions, whatever the store held before, the listing
\* contains exactly one session, that session has no messages, and it is
\* the current session.
C22_ClearLeavesOneEmptyCurrent ==
    lastOp.op = "clearAllSessions" =>
        /\ ls.has
        /\ Len(Listing) = 1
        /\ Listing[1].messages = <<>>
        /\ ls.cur = Listing[1].id

\* the store was cleared after it had handed out ids: the one session left
\* is the newest ever created
C22_Witness ==
    /\ lastOp.op = "clearAllSessions"
    /\ Len(Listing) = 1
    /\ Listing[1].id = nextId - 1
    /\ Listing[1].id > 1
    /\ Listing[1].title = DefaultTitle


\* ------------------------------------------------- C23
\* the backend call of a request in flight eventually throws or returns
SpecUILive == SpecUI /\ WF_vars(ResponseFailed \/ ResponseOk)

\* C23: a chat request that is being sent eventually succeeds or fails, and
\* the loading flag is cleared then, whatever the user does to the sessions
\* meanwhile.
C23_RequestSettles ==
    (inflight # <<>>) ~> (inflight = <<>> /\ ~isLoading)

\* a request settled after the user had left the session it was sent in
C23_Witness ==
    /\ lastOp.op = "responseOk"
    /\ lastOp.sentIn # ls.cur
    /\ inflight = <<>>
    /\ ~isLoading
    /\ TextareaEnabled


\* ------------------------------------------------- two tabs, one area
\* Two tabs run store operations on the same persistent area.  A step is
\* one access of a tab to the area (getItem or setItem of one key) together
\* with the local computation that follows it; the steps of the two tabs
\* interleave freely.  A local that is not read again is cleared.

\* lines 115-126 of addMessage with the session unshifted in every case
addMessageWrite_AlwaysUnshift(sessions, cs, newMessage) ==
    <<[cs EXCEPT !.messages = Append(@, newMessage)]>> \o sessions

\* lines 115-126 of addMessage: the listing it saves, from the listing it
\* read first and the session getCurrentSession returned
addMessageWrite(sessions, cs, newMessage) ==
    LET sessionIndex == FindIndex(sessions, cs.id)
    IN  IF sessionIndex # 0
        THEN [sessions EXCEPT ![sessionIndex].messages = Append(@, newMessage)]
        ELSE <<[cs EXCEPT !.messages = Append(@, newMessage)]>> \o sessions

\* the messages the two tabs add between them
MaxTabMsgs == 1

TabMessage == [role |-> "user", content |-> "a", mode |-> "chat"]

\* tab t moves to local state l; w is TRUE when the step writes the listing
TabStep(t, l, w) ==
    /\ tabs' = [loc |-> [tabs.loc EXCEPT ![t] = l],
                writer |-> IF w THEN t ELSE tabs.writer]
    /\ lastOp' = [op |-> "tab"]
    /\ UNCHANGED <<messages, input, isLoading, isConnected, mode,
                   isExpressiveMode, currentSession, mounted, inflight, asked, logger>>

\* what a tab sees of the area when its operation starts
ViewOfArea == [list |-> getSessions(Store), cur |-> getCurrentSessionId(Store)]

\* createNewSession, lines 70-78: the new session is built and the listing
\* is read; entered from idle, or from getCurrentSession and deleteSession
CRead(t) ==
    LET l == tabs.loc[t]
        newSession == [id |-> nextId, title |-> DefaultTitle, messages |-> <<>>]
    IN  /\ l.pc \in {"idle", "c_read"}
        /\ nextId <= MaxIds
        /\ nextId' = nextId + 1
        /\ UNCHANGED ls
        /\ TabStep(t, [l EXCEPT !.pc = "c_write",
                                !.op = IF l.pc = "idle" THEN "createNewSession" ELSE @,
                                !.view = IF l.pc = "idle" THEN ViewOfArea ELSE @,
                                !.newSession = newSession,
                                !.csessions = <<newSession>> \o getSessions(Store)],
                   FALSE)

\* createNewSession, line 80: saveSessions
CWrite(t) ==
    LET l == tabs.loc[t]
        st == saveSessions(Store, l.csessions)
    IN  /\ l.pc = "c_write"
        /\ ls' = [has |-> st.has, list |-> st.list, cur |-> st.cur]
        /\ UNCHANGED nextId
        /\ TabStep(t, [l EXCEPT !.pc = "c_cur", !.csessions = <<>>], TRUE)

\* createNewSession, lines 81-83: setCurrentSessionId, return
CCur(t) ==
    LET l == tabs.loc[t]
        st == setCurrentSessionId(Store, l.newSession.id)
    IN  /\ l.pc = "c_cur"
        /\ ls' = [has |-> st.has, list |-> st.list, cur |-> st.cur]
        /\ UNCHANGED nextId
        /\ TabStep(t, IF l.ret = "done" THEN IdleTab
                      ELSE [l EXCEPT !.pc = l.ret,
                                     !.currentSession = l.newSession],
                   FALSE)

\* addMessage, line 106: getSessions
ARead(t) ==
    LET l == tabs.loc[t]
    IN  /\ l.pc = "idle"
        /\ UNCHANGED <<ls, nextId>>
        /\ TabStep(t, [l EXCEPT !.pc = "g_cur", !.op = "addMessage",
                                !.view = ViewOfArea, !.ret = "a_write",
                                !.sessions = getSessions(Store)],
                   FALSE)

\* getCurrentSession, lines 94-95: getCurrentSessionId
GCur(t) ==
    LET l == tabs.loc[t]
        currentId == getCurrentSessionId(Store)
    IN  /\ l.pc = "g_cur"
        /\ UNCHANGED <<ls, nextId>>
        /\ TabStep(t, [l EXCEPT !.pc = IF currentId # NoId THEN "g_list"
                                       ELSE "c_read",
                                !.arg = currentId],
                   FALSE)

\* getCurrentSession, lines 96-101: getSession(currentId)
GList(t) ==
    LET l == tabs.loc[t]
        s == getSession(Store, l.arg)
    IN  /\ l.pc = "g_list"
        /\ UNCHANGED <<ls, nextId>>
        /\ TabStep(t, IF s.found
                      THEN [l EXCEPT !.pc = l.ret, !.arg = NoId,
                                     !.currentSession = s.session]
                      ELSE [l EXCEPT !.pc = "c_read", !.arg = NoId],
                   FALSE)

\* addMessage, lines 109-128: the listing is updated and saved
AWrite(t) ==
    LET l == tabs.loc[t]
        st == saveSessions(Store,
                  addMessageWrite(l.sessions, l.currentSession, TabMessage))
    IN  /\ l.pc = "a_write"
        /\ TotalMsgs(st) <= MaxTabMsgs
        /\ ls' = [has |-> st.has, list |-> st.list, cur |-> st.cur]
        /\ UNCHANGED nextId
        /\ TabStep(t, IdleTab, TRUE)

\* deleteSession, line 165: getSessions
DRead(t) ==
    LET l == tabs.loc[t]
    IN  /\ l.pc = "idle"
        /\ UNCHANGED <<ls, nextId>>
        /\ \E sessionId \in 1..(nextId - 1) :
            TabStep(t, [l EXCEPT !.pc = "d_write", !.op = "deleteSession",
                                 !.view = ViewOfArea, !.arg = sessionId,
                                 !.sessions = getSessions(Store)],
                    FALSE)

\* deleteSession, lines 166-167: filter, saveSessions
DWrite(t) ==
    LET l == tabs.loc[t]
        st == saveSessions(Store, FilterOut(l.sessions, l.arg))
    IN  /\ l.pc = "d_write"
        /\ ls' = [has |-> st.has, list |-> st.list, cur |-> st.cur]
        /\ UNCHANGED nextId
        /\ TabStep(t, [l EXCEPT !.pc = "d_cur", !.sessions = <<>>], TRUE)

\* deleteSession, lines 170-172: getCurrentSessionId() === sessionId
DCur(t) ==
    LET l == tabs.loc[t]
    IN  /\ l.pc = "d_cur"
        /\ UNCHANGED <<ls, nextId>>
        /\ TabStep(t, IF getCurrentSessionId(Store) = l.arg
                      THEN [l EXCEPT !.pc = "c_read", !.ret = "done"]
                      ELSE IdleTab,
                   FALSE)


NextTabs ==
    \/ \E t \in Tabs : CRead(t)
    \/ \E t \in Tabs : CWrite(t)
    \/ \E t \in Tabs : CCur(t)
    \/ \E t \in Tabs : ARead(t)
    \/ \E t \in Tabs : GCur(t)
    \/ \E t \in Tabs : GList(t)
    \/ \E t \in Tabs : AWrite(t)
    \/ \E t \in Tabs : DRead(t)
    \/ \E t \in Tabs : DWrite(t)
    \/ \E t \in Tabs : DCur(t)

SpecTabs == Init /\ [][NextTabs]_vars

\* session s is as the operation of local state l leaves a session of the
\* listing the tab saw when the operation started (untouched, or with the
\* message of addMessage), or is the session the operation created
FromOwnView(s, l) ==
    \/ l.newSession.id # NoId /\ s.id = l.newSession.id
    \/ \E j \in DOMAIN l.view.list :
          \/ s = l.view.list[j]
          \/ /\ l.op = "addMessage"
             /\ s = [l.view.list[j] EXCEPT !.messages = Append(@, TabMessage)]

\* ------------------------------------------------- C24
\* C24: a store operation reads, modifies and writes the whole listing as
\* one unit, so the last writer's view wins: when a tab's operation ends
\* and that tab wrote the listing last, every session of the persisted
\* listing comes from the listing as that tab saw it when the operation
\* started, or was created by the operation; none comes from a write the
\* other tab made meanwhile.
C24_LastWriterViewWins ==
    [][\A t \in Tabs :
          (/\ tabs.loc[t].pc # "idle"
           /\ tabs'.loc[t].pc = "idle"
           /\ tabs'.writer = t)
          => \A i \in DOMAIN getSessions(Store') :
                FromOwnView(getSessions(Store')[i], tabs.loc[t])
      ]_vars


\* ------------------------------------------------- C27
\* C27: no two sessions of the persisted listing share an id, in every
\* state the two tabs reach by interleaving the reads and writes of their
\* store operations (a created session gets an id never used before).
C27_UniqueIds ==
    \A i, j \in DOMAIN Listing : Listing[i].id = Listing[j].id => i = j

\* tab 2 wrote the listing while tab 1 was in the middle of its own
\* operation, holding a listing it read earlier; two sessions are listed
C27_Witness ==
    /\ tabs.writer = 2
    /\ tabs.loc[1].pc = "a_write"
    /\ tabs.loc[1].sessions # Listing
    /\ Len(Listing) = 2


\* ------------------------------------------------- the persisted text
\* the longest listing handed to saveSessions
MaxSavedSessions == 2

\* Date values, in milliseconds since the epoch
TimeValues == {0, 999, 1001}

\* Date.prototype.toJSON cut at the second
toJSON_Seconds(t) == [seconds |-> t \div 1000, millis |-> 0]

\* Date.prototype.toJSON: the ISO text, with seconds and three digits of
\* milliseconds
toJSON(t) == [seconds |-> t \div 1000, millis |-> t % 1000]

\* new Date(isoText)
NewDate(iso) == iso.seconds * 1000 + iso.millis

\* JSON.stringify leaves out a property whose value is undefined
StringifyOptional(v) == IF v = Undefined THEN [present |-> FALSE]
                        ELSE [present |-> TRUE, text |-> v]

\* reading a property of a parsed object: undefined when it is not there
ReadOptional(p) == IF p.present THEN p.text ELSE Undefined

\* JSON.stringify(sessions)
Stringify(sessions) ==
    [i \in DOMAIN sessions |->
        [id |-> sessions[i].id, title |-> sessions[i].title,
         createdAt |-> toJSON(sessions[i].createdAt),
         updatedAt |-> toJSON(sessions[i].updatedAt),
         messages |->
            [j \in DOMAIN sessions[i].messages |->
                LET m == sessions[i].messages[j] IN
                [id |-> m.id, role |-> m.role, content |-> m.content,
                 timestamp |-> toJSON(m.timestamp),
                 mode |-> StringifyOptional(m.mode)]]]]

\* JSON.parse and the two maps of getSessions
Revive(parsed) ==
    [i \in DOMAIN parsed |->
        [id |-> parsed[i].id, title |-> parsed[i].title,
         createdAt |-> NewDate(parsed[i].createdAt),
         updatedAt |-> NewDate(parsed[i].updatedAt),
         messages |->
            [j \in DOMAIN parsed[i].messages |->
                LET m == parsed[i].messages[j] IN
                [id |-> m.id, role |-> m.role, content |-> m.content,
                 timestamp |-> NewDate(m.timestamp),
                 mode |-> ReadOptional(m.mode)]]]]

\* getSessions on the text saveSessions wrote
getSessionsOfText(item) == IF item.kind = "missing" THEN <<>> ELSE Revive(item.text)

\* the messages of a session: none, or one from addMessage
SavedMessages ==
    {<<>>} \cup
    {<<[id |-> "msg_1", role |-> "user", content |-> "a",
        timestamp |-> t, mode |-> md]>> :
        t \in TimeValues, md \in {Undefined, "chat"}}

\* the listings handed to saveSessions: sessions with ids n, .., 1
RECURSIVE SavedListings(_)
SavedListings(n) ==
    IF n = 0 THEN {<<>>}
    ELSE {<<>>} \cup
         {<<[id |-> n, title |-> DefaultTitle, createdAt |-> c,
             updatedAt |-> u, messages |-> ms]>> \o rest :
             c \in TimeValues, u \in TimeValues, ms \in SavedMessages,
             rest \in SavedListings(n - 1)}

\* the key is not there yet; a caller holds a listing
InitText ==
    /\ ls = [kind |-> "missing"]
    /\ nextId = 1
    /\ \E sessions \in SavedListings(MaxSavedSessions) :
        lastOp = [op |-> "caller", held |-> sessions]
    /\ messages = <<>>
    /\ input = ""
    /\ isLoading = FALSE
    /\ isConnected = FALSE
    /\ mode = "chat"
    /\ isExpressiveMode = FALSE
    /\ currentSession = NoId
    /\ mounted = FALSE
    /\ inflight = <<>>
    /\ asked = {}
    /\ tabs = NoTabs
    /\ logger = NewLogger

\* the caller saves the listing it holds
TextSaveSessions ==
    /\ lastOp.op # "saveSessions"
    /\ ls' = [kind |-> "json", text |-> Stringify(lastOp.held)]
    /\ lastOp' = [op |-> "saveSessions", held |-> lastOp.held]
    /\ UNCHANGED <<nextId, messages, input, isLoading, isConnected, mode,
                   isExpressiveMode, currentSession, mounted, inflight, asked, tabs, logger>>

\* the caller reads the listing and holds what it got
TextGetSessions ==
    /\ lastOp' = [op |-> "getSessions", held |-> getSessionsOfText(ls)]
    /\ UNCHANGED <<ls, nextId, messages, input, isLoading, isConnected, mode,
                   isExpressiveMode, currentSession, mounted, inflight, asked, tabs, logger>>

NextText ==
    \/ TextSaveSessions
    \/ TextGetSessions

SpecText == InitText /\ [][NextText]_vars

\* ------------------------------------------------- C25
\* C25: getSessions right after saveSessions(sessions) returns the same
\* sessions in the same order: same ids, titles, message ids, roles and
\* contents, and every date equal to the original to the millisecond.
C25_SaveThenGetIsIdentity ==
    [][(lastOp.op = "saveSessions" /\ lastOp'.op = "getSessions")
            => lastOp'.held = lastOp.held]_vars

\* two sessions were read back; one holds a message without a mode and a
\* date that is not a whole second
C25_Witness ==
    /\ lastOp.op = "getSessions"
    /\ Len(lastOp.held) = 2
    /\ lastOp.held[1].createdAt = 999
    /\ lastOp.held[1].updatedAt = 1001
    /\ Len(lastOp.held[2].messages) = 1
    /\ lastOp.held[2].messages[1].mode = Undefined
    /\ lastOp.held[2].messages[1].timestamp = 1001


\* ------------------------------------------------- C26
\* C26: whenever the chat is mounted and no request is in flight, the
\* displayed messages have the same sequence of (role, content) as the
\* messages of the store's current session.
C26_DisplayedIsStored ==
    (mounted /\ inflight = <<>>) =>
        RoleAndContent(messages) = RoleAndContent(MessagesOf(Listing, ls.cur))


\* ------------------------------------------------- C28
\* C28: the user message is in the store before its request is built: the
\* conversation_history of every request ends with the message being sent,
\* as {role: user, content: message}, and the failure of a request leaves
\* the store, that message included, as it is.
C28_HistoryEndsWithSentMessage ==
    [][/\ Len(inflight') > Len(inflight) =>
            LET request == inflight'[Len(inflight')] IN
            /\ request.conversation_history # <<>>
            /\ request.conversation_history[Len(request.conversation_history)]
                   = [role |-> "user", content |-> request.message]
            /\ LastStored'.role = "user"
            /\ LastStored'.content = request.message
       /\ lastOp'.op = "responseFailed" => ls' = ls
      ]_vars

\* a request sent at the end of a long conversation failed; the user
\* message is still the last one of the session
C28_Witness ==
    /\ lastOp.op = "responseFailed"
    /\ Len(MessagesOf(Listing, ls.cur)) > 10
    /\ LastStored = [role |-> "user", content |-> "a", mode |-> "chat"]
    /\ LastN(messages, 1) =
          <<[role |-> "assistant", content |-> ErrorText, mode |-> "error"]>>


\* ------------------------------------------------- C29
\* C29: a title the backend returns for a request that asked for one is
\* written only to a session whose title, at the moment of the write, still
\* is a default title; a title the user set by a rename while the request
\* was in flight is never overwritten.
C29_GeneratedTitleSparesRenames ==
    [][(/\ lastOp'.op = "responseOk"
        /\ lastOp'.title # Undefined
        /\ Len(inflight) = 1 /\ inflight[1].generate_title)
          => hasDefaultTitle(TitleOf(Listing, ls.cur))
      ]_vars


\* ------------------------------------------------- the logger's flushes
\* log entries made after construction, metrics, and flush calls that send
MaxLogEntries == 2
MaxMetrics == 1
MaxFlushes == 3

\* flush up to its first await: nothing when both buffers are empty; else
\* the buffers are copied and cleared and the first POST is issued
flush(lg) ==
    IF lg.logBuffer = <<>> /\ lg.performanceBuffer = <<>> THEN lg
    ELSE [lg EXCEPT
            !.logBuffer = <<>>,
            !.performanceBuffer = <<>>,
            !.started = @ + 1,
            !.flushes = @ \cup
                {[logsToSend |-> lg.logBuffer,
                  metricsToSend |-> lg.performanceBuffer,
                  pc |-> IF Len(lg.logBuffer) > 0 THEN "logs" ELSE "metrics"]}]

\* the catch block of flush f: both copies go back in front of the buffers
flushCatch(lg, f) ==
    [lg EXCEPT
        !.logBuffer = JsSlice(f.logsToSend, -maxBufferSize) \o @,
        !.performanceBuffer = JsSlice(f.metricsToSend, -maxBufferSize) \o @,
        !.flushes = @ \ {f}]

\* the backend has received the log entries of flush f
Received(lg, f) ==
    [lg EXCEPT !.delivered =
        [e \in DOMAIN @ |->
            IF \E i \in DOMAIN f.logsToSend : f.logsToSend[i] = e
            THEN @[e] + 1 ELSE @[e]]]

LoggerStep(lg) ==
    /\ lg.started <= MaxFlushes
    /\ logger' = lg
    /\ lastOp' = [op |-> "logger"]
    /\ UNCHANGED <<ls, nextId, messages, input, isLoading, isConnected, mode,
                   isExpressiveMode, currentSession, mounted, inflight, asked,
                   tabs>>

AddLogEntry ==
    \E level \in Levels :
        /\ logger.made <= MaxLogEntries
        /\ LET e == logger.made + 1
               pushed == [logger EXCEPT
                            !.logBuffer = Append(@, e),
                            !.made = e,
                            !.delivered = [x \in DOMAIN @ \cup {e} |->
                                             IF x = e THEN 0 ELSE @[x]]]
           IN  LoggerStep(IF Len(pushed.logBuffer) >= maxBufferSize
                             \/ level = "error"
                          THEN flush(pushed) ELSE pushed)

LogPerformance ==
    /\ logger.measured < MaxMetrics
    /\ LET pushed == [logger EXCEPT
                        !.performanceBuffer = Append(@, logger.measured + 1),
                        !.measured = @ + 1]
       IN  LoggerStep(IF Len(pushed.performanceBuffer) >= maxBufferSize
                      THEN flush(pushed) ELSE pushed)

\* the interval timer (or a caller) runs flush
TimerFlush ==
    /\ flush(logger) # logger
    /\ LoggerStep(flush(logger))

\* the POST of the log entries resolves: on to the metrics, if any
LogsPostOk ==
    \E f \in logger.flushes :
        /\ f.pc = "logs"
        /\ LET got == Received(logger, f)
           IN  LoggerStep(
                 IF Len(f.metricsToSend) > 0
                 THEN [got EXCEPT !.flushes =
                          (@ \ {f}) \cup {[f EXCEPT !.pc = "metrics"]}]
                 ELSE [got EXCEPT !.flushes = @ \ {f}])

\* the POST of the log entries rejects
LogsPostFail ==
    \E f \in logger.flushes :
        /\ f.pc = "logs"
        /\ LoggerStep(flushCatch(logger, f))

\* the POST of the metrics resolves: flush returns
MetricsPostOk ==
    \E f \in logger.flushes :
        /\ f.pc = "metrics"
        /\ LoggerStep([logger EXCEPT !.flushes = @ \ {f}])

\* the POST of the metrics rejects, after the log entries (if any) went out
MetricsPostFail ==
    \E f \in logger.flushes :
        /\ f.pc = "metrics"
        /\ LoggerStep(flushCatch(logger, f))

NextLogger ==
    \/ AddLogEntry
    \/ LogPerformance
    \/ TimerFlush
    \/ LogsPostOk
    \/ LogsPostFail
    \/ MetricsPostOk
    \/ MetricsPostFail

SpecLogger == Init /\ [][NextLogger]_vars

\* ------------------------------------------------- C30
\* C30: no log entry is successfully POSTed to the backend more than once,
\* over any sequence of log calls and flushes (a flush whose log POST
\* succeeds and whose metrics POST then fails, and overlapping flushes,
\* included).
C30_PostedAtMostOnce ==
    \A e \in DOMAIN logger.delivered : logger.delivered[e] <= 1

====
